---------------------------- MODULE Spec2Model ----------------------------
(***************************************************************************)
(* Model of the cyclomatic-complexity repository.                          *)
(*                                                                         *)
(*   SpecCyclomatic : src/cyclomatic.rs, the counter-based graph builder   *)
(*   SpecCalculator : src/parsers/ast_graph_parser.rs + src/calculator.rs, *)
(*                    the edge-list builder and the formula over it        *)
(*   SpecCounter    : src/parsers/rust_parser.rs, the Process trait        *)
(*   SpecTree       : src/parsers/rust_parser.rs ComplexityTree and        *)
(*                    src/bin/main.rs, the report                          *)
(*   SpecLexer      : src/parsers/delphi/lexer.rs, tokenize                *)
(*                                                                         *)
(* A syntax tree is a value; DefaultHasher over a syntax node is modelled  *)
(* as the pair <<type of the hashed value, its content>>, i.e. a           *)
(* collision-free structural hash.                                         *)
(***************************************************************************)
EXTENDS Integers, Sequences, FiniteSets, TLC

VARIABLES
    file,                  \* syn::File handed to the entry point
    call_stack,            \* pending calls of the recursive walk, innermost first
    complexity,            \* value returned by the entry point
    pc,                    \* "running" until the entry point returns
    connected_components,  \* cyclomatic.rs ASTGraph.connected_components
    nodes,                 \* cyclomatic.rs ASTGraph.nodes
    edges,                 \* cyclomatic.rs ASTGraph.edges
    visited,               \* cyclomatic.rs ASTGraph.visited
    checked_update_calls,  \* cyclomatic.rs: calls of ASTGraph::checked_update so far
    graph_nodes,           \* ast_graph_parser.rs ASTGraph.nodes
    graph_edges,           \* ast_graph_parser.rs ASTGraph.edges
    body,                  \* rust_parser.rs: the syn::Block being counted
    root,                  \* rust_parser.rs: the File ComplexityNode
    output,                \* main.rs: the println! calls made so far
    src,                   \* lexer.rs: the string handed to tokenize
    data,                  \* lexer.rs Tokenizer.data
    cur_idx,               \* lexer.rs Tokenizer.cur_idx
    tokens,                \* lexer.rs: the vector tokenize builds
    error,                 \* lexer.rs: the ParseError tokenize returns
    size,                  \* thread_pool.rs: the number of workers of the pool
    channel,               \* thread_pool.rs: the messages sent and not yet received
    lock,                  \* thread_pool.rs: the worker holding the receiver's Mutex
    worker_pc,             \* thread_pool.rs: where each worker thread stands
    received,              \* thread_pool.rs: the messages each worker has received
    main_pc,               \* thread_pool.rs: where the thread owning the pool stands
    jobs_sent,             \* thread_pool.rs: calls of execute so far
    terminates_sent,       \* thread_pool.rs: iterations of the first loop of drop
    joined,                \* thread_pool.rs: iterations of the second loop of drop
    ran,                   \* thread_pool.rs: the calls job() made, <<worker, job>>
    finished               \* thread_pool.rs: the jobs whose call has returned

vars == <<file, call_stack, complexity, pc, connected_components, nodes, edges,
          visited, checked_update_calls, graph_nodes, graph_edges, body, root, output,
          src, data, cur_idx, tokens, error,
          size, channel, lock, worker_pc, received, main_pc, jobs_sent,
          terminates_sent, joined, ran, finished>>

cyclomaticVars == <<connected_components, nodes, edges, visited, checked_update_calls>>

graphVars == <<graph_nodes, graph_edges>>

counterVars == <<body>>

treeVars == <<root, output>>

lexerVars == <<src, data, cur_idx, tokens, error>>

poolVars ==
    <<size, channel, lock, worker_pc, received, main_pc, jobs_sent,
      terminates_sent, joined, ran, finished>>

\* the state of the parts of the program a run does not use
CyclomaticIdle ==
    /\ connected_components = 0 /\ nodes = 0 /\ edges = 0 /\ visited = {}
    /\ checked_update_calls = 0

GraphIdle == graph_nodes = {} /\ graph_edges = <<>>

CounterIdle == body = <<>>

TreeIdle == root = <<>> /\ output = <<>>

LexerIdle == src = <<>> /\ data = <<>> /\ cur_idx = 0 /\ tokens = <<>> /\ error = <<>>

\* the value of lock while no worker holds the Mutex
Unlocked == -1

PoolIdle ==
    /\ size = 0 /\ channel = <<>> /\ lock = Unlocked /\ worker_pc = <<>> /\ received = <<>>
    /\ main_pc = "" /\ jobs_sent = 0 /\ terminates_sent = 0 /\ joined = 0
    /\ ran = <<>> /\ finished = {}

(***************************************************************************)
(* Bounds of the explored inputs.                                          *)
(***************************************************************************)
MaxItems == 2      \* top-level items per file
MaxPath == 3       \* segments of a use path
MaxNested == 2     \* items inside an inline module
MaxStmts == 2      \* statements of a function body
MaxChain == 2      \* `else if` clauses after an `if`
MaxTreeItems == 2  \* top-level items of a file handed to ComplexityTree
MaxImplItems == 2  \* items of an impl block
MaxInput == 4      \* characters of the string handed to tokenize
MaxDepth == 3      \* inline modules nested in one another
MaxToken == 2      \* characters of the string handed to tokenize_next_token
MaxWorkers == 2    \* size of the thread pool
MaxJobs == 2       \* calls of execute before the pool is dropped

(***************************************************************************)
(* syn::Item values.  Every item is a record of the same shape; the fields *)
(* a kind does not have keep their default.                                *)
(***************************************************************************)
Segments == <<"a", "b", "c", "d", "e">>

MkItem(k) ==
    [kind |-> k, rename |-> FALSE, tree |-> <<>>, has_content |-> FALSE, items |-> <<>>]

SeqUpTo(S, n) == UNION {[1..k -> S] : k \in 0..n}

UsePath(k) == [i \in 1..k |-> Segments[i]]

ExternCrateItems == {[MkItem("ExternCrate") EXCEPT !.rename = r] : r \in BOOLEAN}

UseItems == {[MkItem("Use") EXCEPT !.tree = UsePath(k)] : k \in 1..MaxPath}

LeafKinds ==
    {"Type", "Struct", "Enum", "Union", "Trait", "TraitAlias", "Impl",
     "Macro", "Macro2", "Verbatim"}

LeafItems == {MkItem(k) : k \in LeafKinds}

BodyItems == {MkItem(k) : k \in {"Static", "Const", "Fn"}}

ForeignItems == {MkItem("ForeignItem")}

ForeignModItems ==
    {[MkItem("ForeignMod") EXCEPT !.items = s] : s \in SeqUpTo(ForeignItems, 1)}

\* items written inside an inline module
NestedItems == {MkItem("Struct"), [MkItem("Use") EXCEPT !.tree = UsePath(1)]}

RECURSIVE Nest(_)
\* `mod m { mod m { ... struct S; } }` with d modules around the struct
Nest(d) ==
    IF d = 0
    THEN MkItem("Struct")
    ELSE [MkItem("Mod") EXCEPT !.has_content = TRUE, !.items = <<Nest(d - 1)>>]

ModItems ==
    {MkItem("Mod")} \cup
    {[MkItem("Mod") EXCEPT !.has_content = TRUE, !.items = s] :
        s \in SeqUpTo(NestedItems, MaxNested)} \cup
    {Nest(d) : d \in 2..MaxDepth}

Items ==
    ExternCrateItems \cup UseItems \cup BodyItems \cup ModItems
        \cup ForeignModItems \cup LeafItems

Files == {[items |-> s] : s \in SeqUpTo(Items, MaxItems)}

(***************************************************************************)
(* Structural hash of a syntax node: the hashed type and its content.      *)
(* syn::Item hashes its discriminant before the variant's fields, so the   *)
(* hash of an Item differs from the hash of the ItemUse, ItemFn, ... it    *)
(* wraps.                                                                  *)
(***************************************************************************)
get_node(type, ast) == <<type, ast>>

ItemType(ast) == "Item" \o ast.kind

Frame(fn, ast, parent) == [fn |-> fn, ast |-> ast, parent |-> parent]

Push(frames, stack) == frames \o stack

Top == call_stack[1]

Running(fn) == call_stack # <<>> /\ Top.fn = fn

(***************************************************************************)
(* src/cyclomatic.rs                                                       *)
(***************************************************************************)
CycParent == <<"none", <<>>>>

\* ASTGraph::checked_update: the counters and the set after the call, and
\* the returned flag
cyc_checked_update(g, addr) ==
    IF addr \in g.visited
    THEN [edges |-> g.edges + 1, nodes |-> g.nodes, visited |-> g.visited,
          is_new |-> FALSE]
    ELSE [edges |-> g.edges + 1, nodes |-> g.nodes + 1,
          visited |-> g.visited \cup {addr}, is_new |-> TRUE]

CycGraph == [edges |-> edges, nodes |-> nodes, visited |-> visited]

CycFrame == UNCHANGED <<graphVars, counterVars, treeVars, lexerVars, poolVars>>

\* ASTGraph::new
CycInit ==
    /\ file \in Files
    /\ call_stack = <<Frame("parse_file", file.items, CycParent)>>
    /\ connected_components = 0
    /\ nodes = 0
    /\ edges = 0
    /\ visited = {}
    /\ checked_update_calls = 0
    /\ complexity = 0
    /\ pc = "running"
    /\ GraphIdle /\ CounterIdle /\ TreeIdle /\ LexerIdle /\ PoolIdle

\* cyc_parse_file counting a component only for an item not seen before
cyc_parse_file_once ==
    /\ Running("parse_file")
    /\ Top.ast # <<>>
    /\ connected_components' =
         IF get_node("Item", Head(Top.ast)) \in visited
         THEN connected_components ELSE connected_components + 1
    /\ call_stack' =
         Push(<<Frame("parse_item", Head(Top.ast), CycParent),
                Frame("parse_file", Tail(Top.ast), CycParent)>>,
              Tail(call_stack))
    /\ UNCHANGED <<file, nodes, edges, visited, checked_update_calls, complexity, pc>>
    /\ CycFrame

\* one iteration of the loop of ASTGraph::parse_file
cyc_parse_file ==
    /\ Running("parse_file")
    /\ Top.ast # <<>>
    /\ connected_components' = connected_components + 1
    /\ call_stack' =
         Push(<<Frame("parse_item", Head(Top.ast), CycParent),
                Frame("parse_file", Tail(Top.ast), CycParent)>>,
              Tail(call_stack))
    /\ UNCHANGED <<file, nodes, edges, visited, checked_update_calls, complexity, pc>>
    /\ CycFrame

\* the loop of ASTGraph::parse_file is over
cyc_parse_file_return ==
    /\ Running("parse_file")
    /\ Top.ast = <<>>
    /\ call_stack' = Tail(call_stack)
    /\ UNCHANGED <<file, connected_components, nodes, edges, visited,
                   checked_update_calls, complexity, pc>>
    /\ CycFrame

CycDispatched ==
    {"ExternCrate", "Use", "Static", "Const", "Fn"}

\* ASTGraph::parse_item
cyc_parse_item ==
    /\ Running("parse_item")
    /\ LET r == cyc_checked_update(CycGraph, get_node("Item", Top.ast))
           callee == IF Top.ast.kind \in CycDispatched
                     THEN <<Frame("parse_item_" \o Top.ast.kind, Top.ast, CycParent)>>
                     ELSE <<>>
       IN /\ edges' = r.edges
          /\ nodes' = r.nodes
          /\ visited' = r.visited
          /\ call_stack' = IF r.is_new THEN Push(callee, Tail(call_stack))
                                       ELSE Tail(call_stack)
    /\ checked_update_calls' = checked_update_calls + 1
    /\ UNCHANGED <<file, connected_components, complexity, pc>>
    /\ CycFrame

\* ASTGraph::parse_item_extern_crate
cyc_parse_item_extern_crate ==
    /\ Running("parse_item_ExternCrate")
    /\ LET r == cyc_checked_update(CycGraph, get_node(ItemType(Top.ast), Top.ast))
           renamed == r.is_new /\ Top.ast.rename
       IN /\ edges' = IF renamed THEN r.edges + 2 ELSE r.edges
          /\ nodes' = IF renamed THEN r.nodes + 2 ELSE r.nodes
          /\ visited' = r.visited
    /\ call_stack' = Tail(call_stack)
    /\ checked_update_calls' = checked_update_calls + 1
    /\ UNCHANGED <<file, connected_components, complexity, pc>>
    /\ CycFrame

\* ASTGraph::parse_use_tree, parse_type, parse_expr, parse_block: empty bodies
cyc_parse_children(g, ast) == g

\* ASTGraph::parse_item_use, parse_item_static, parse_item_const, parse_item_fn
cyc_parse_item_with_children ==
    /\ call_stack # <<>>
    /\ Top.fn \in {"parse_item_Use", "parse_item_Static", "parse_item_Const",
                   "parse_item_Fn"}
    /\ LET r == cyc_checked_update(CycGraph, get_node(ItemType(Top.ast), Top.ast))
           g == IF r.is_new THEN cyc_parse_children(r, Top.ast) ELSE r
       IN /\ edges' = g.edges
          /\ nodes' = g.nodes
          /\ visited' = g.visited
    /\ call_stack' = Tail(call_stack)
    /\ checked_update_calls' = checked_update_calls + 1
    /\ UNCHANGED <<file, connected_components, complexity, pc>>
    /\ CycFrame

\* the formula of calculate_complexity
cyc_formula(e, n, c) == e - n + 2 * c

\* calculate_complexity, once ASTGraph::new has returned
calculate_complexity ==
    /\ call_stack = <<>>
    /\ pc = "running"
    /\ complexity' = cyc_formula(edges, nodes, connected_components)
    /\ pc' = "returned"
    /\ UNCHANGED <<file, call_stack, connected_components, nodes, edges, visited,
                   checked_update_calls>>
    /\ CycFrame

CycNext ==
    \/ cyc_parse_file
    \/ cyc_parse_file_return
    \/ cyc_parse_item
    \/ cyc_parse_item_extern_crate
    \/ cyc_parse_item_with_children
    \/ calculate_complexity

SpecCyclomatic == CycInit /\ [][CycNext]_vars

\* C1: once ASTGraph::new has walked the file, connected_components is the
\* number of top-level items of the file (duplicated and unexpanded items
\* included), and calculate_complexity returns
\* edges - nodes + 2 * (number of top-level items).
TheoremC1 ==
    /\ call_stack = <<>> => connected_components = Len(file.items)
    /\ pc = "returned" => complexity = edges - nodes + 2 * Len(file.items)

\* a file with the same unexpanded item written twice has been measured
WitnessC1 ==
    /\ pc = "returned"
    /\ Len(file.items) = 2
    /\ file.items[1] = file.items[2]
    /\ file.items[1].kind = "Struct"
    /\ connected_components = 2

SingleUse == Len(file.items) = 1 /\ file.items[1].kind = "Use"

\* C3: for a file made of one `use` declaration with a path of k segments
\* the builder ends with nodes = k + 1, edges = k and one component.
ClaimC3 ==
    (pc = "returned" /\ SingleUse) =>
        LET k == Len(file.items[1].tree)
        IN nodes = k + 1 /\ edges = k /\ connected_components = 1

\* C12: in every reachable state of the counter-based builder, for every
\* file and every item kind (`extern crate ... as ...` included), nodes is
\* the number of distinct identities in visited and edges is the number of
\* checked_update calls made.
ClaimC12 ==
    /\ nodes = Cardinality(visited)
    /\ edges = checked_update_calls

(***************************************************************************)
(* src/parsers/ast_graph_parser.rs and src/calculator.rs                   *)
(***************************************************************************)

\* the literal 0 that ASTGraph::new passes as the parent of the file
Zero == <<"0", <<>>>>

\* checked_update recording an edge only for an identity not seen before
checked_update_dedup(g, node, parent) ==
    IF node \in g.nodes
    THEN [nodes |-> g.nodes, edges |-> g.edges, is_new |-> FALSE]
    ELSE [nodes |-> g.nodes \cup {node}, edges |-> Append(g.edges, <<parent, node>>),
          is_new |-> TRUE]

\* ASTGraph::checked_update: the set and the list after the call, and the
\* returned flag
checked_update(g, node, parent) ==
    IF node \in g.nodes
    THEN [nodes |-> g.nodes, edges |-> Append(g.edges, <<parent, node>>),
          is_new |-> FALSE]
    ELSE [nodes |-> g.nodes \cup {node}, edges |-> Append(g.edges, <<parent, node>>),
          is_new |-> TRUE]

Graph == [nodes |-> graph_nodes, edges |-> graph_edges]

GraphFrame == UNCHANGED <<cyclomaticVars, counterVars, treeVars, lexerVars, poolVars>>

\* the calls a loop over items makes, in order
Calls(fn, items, parent) == [i \in 1..Len(items) |-> Frame(fn, items[i], parent)]

\* ASTGraph::new
GraphInit ==
    /\ file \in Files
    /\ call_stack = <<Frame("parse_file", file, Zero)>>
    /\ graph_nodes = {}
    /\ graph_edges = <<>>
    /\ complexity = 0
    /\ pc = "running"
    /\ CyclomaticIdle /\ CounterIdle /\ TreeIdle /\ LexerIdle /\ PoolIdle

\* parse_file walking the items without registering the file's identity
parse_file_unregistered ==
    /\ Running("parse_file")
    /\ LET node == get_node("File", Top.ast)
       IN /\ graph_nodes' = graph_nodes
          /\ graph_edges' = Append(graph_edges, <<Top.parent, node>>)
          /\ call_stack' = Push(Calls("parse_item", Top.ast.items, node), Tail(call_stack))
    /\ UNCHANGED <<file, complexity, pc>>
    /\ GraphFrame

\* ASTGraph::parse_file
parse_file ==
    /\ Running("parse_file")
    /\ LET node == get_node("File", Top.ast)
           r == checked_update(Graph, node, Top.parent)
       IN /\ graph_nodes' = r.nodes
          /\ graph_edges' = r.edges
          /\ call_stack' =
               IF r.is_new
               THEN Push(Calls("parse_item", Top.ast.items, node), Tail(call_stack))
               ELSE Tail(call_stack)
    /\ UNCHANGED <<file, complexity, pc>>
    /\ GraphFrame

Dispatched ==
    {"ExternCrate", "Use", "Static", "Const", "Fn", "Mod", "ForeignMod"}

\* ASTGraph::parse_item
parse_item ==
    /\ Running("parse_item")
    /\ LET node == get_node("Item", Top.ast)
           r == checked_update(Graph, node, Top.parent)
           callee == IF Top.ast.kind \in Dispatched
                     THEN <<Frame("parse_item_" \o Top.ast.kind, Top.ast, node)>>
                     ELSE <<>>
       IN /\ graph_nodes' = r.nodes
          /\ graph_edges' = r.edges
          /\ call_stack' = IF r.is_new THEN Push(callee, Tail(call_stack))
                                       ELSE Tail(call_stack)
    /\ UNCHANGED <<file, complexity, pc>>
    /\ GraphFrame

\* ASTGraph::parse_use_tree, parse_type, parse_expr, parse_block,
\* parse_foreign_item: empty bodies
parse_children(g, ast, parent) == g

\* ASTGraph::parse_item_extern_crate, parse_item_use, parse_item_static,
\* parse_item_const, parse_item_fn, parse_item_foreign_mod
parse_item_with_children ==
    /\ call_stack # <<>>
    /\ Top.fn \in {"parse_item_ExternCrate", "parse_item_Use", "parse_item_Static",
                   "parse_item_Const", "parse_item_Fn", "parse_item_ForeignMod"}
    /\ LET node == get_node(ItemType(Top.ast), Top.ast)
           r == checked_update(Graph, node, Top.parent)
           g == IF r.is_new /\ Top.ast.kind # "ExternCrate"
                THEN parse_children(r, Top.ast, node) ELSE r
       IN /\ graph_nodes' = g.nodes
          /\ graph_edges' = g.edges
    /\ call_stack' = Tail(call_stack)
    /\ UNCHANGED <<file, complexity, pc>>
    /\ GraphFrame

\* parse_item_mod without the loop over the content of the module
parse_item_mod_flat ==
    /\ Running("parse_item_Mod")
    /\ LET node == get_node(ItemType(Top.ast), Top.ast)
           r == checked_update(Graph, node, Top.parent)
       IN /\ graph_nodes' = r.nodes
          /\ graph_edges' = r.edges
          /\ call_stack' = Tail(call_stack)
    /\ UNCHANGED <<file, complexity, pc>>
    /\ GraphFrame

\* ASTGraph::parse_item_mod
parse_item_mod ==
    /\ Running("parse_item_Mod")
    /\ LET node == get_node(ItemType(Top.ast), Top.ast)
           r == checked_update(Graph, node, Top.parent)
       IN /\ graph_nodes' = r.nodes
          /\ graph_edges' = r.edges
          /\ call_stack' =
               IF r.is_new /\ Top.ast.has_content
               THEN Push(Calls("parse_item", Top.ast.items, node), Tail(call_stack))
               ELSE Tail(call_stack)
    /\ UNCHANGED <<file, complexity, pc>>
    /\ GraphFrame

Range(s) == {s[i] : i \in 1..Len(s)}

\* Graph_calculate_complexity removing the children instead of the parents
Graph_calculate_complexity_roots(edge_list) ==
    LET edge_count == Len(edge_list)
        all_nodes == {e[1] : e \in Range(edge_list)} \cup {e[2] : e \in Range(edge_list)}
        node_count == Cardinality(all_nodes)
        exits == all_nodes \ {e[2] : e \in Range(edge_list)}
        exit_count == Cardinality(exits)
    IN edge_count - node_count + 2 * exit_count

\* Graph::calculate_complexity
Graph_calculate_complexity(edge_list) ==
    LET edge_count == Len(edge_list)
        all_nodes == {e[1] : e \in Range(edge_list)} \cup {e[2] : e \in Range(edge_list)}
        node_count == Cardinality(all_nodes)
        exits == all_nodes \ {e[1] : e \in Range(edge_list)}
        exit_count == Cardinality(exits)
    IN edge_count - node_count + 2 * exit_count

\* calculator::calculate with ASTGraphParser, once ASTGraph::new has returned:
\* ASTGraphParser::parse hands the edge list over unchanged
calculate ==
    /\ call_stack = <<>>
    /\ pc = "running"
    /\ complexity' = Graph_calculate_complexity(graph_edges)
    /\ pc' = "returned"
    /\ UNCHANGED <<file, call_stack, graph_nodes, graph_edges>>
    /\ GraphFrame

GraphNext ==
    \/ parse_file
    \/ parse_item
    \/ parse_item_with_children
    \/ parse_item_mod
    \/ calculate

SpecCalculator == GraphInit /\ [][GraphNext]_vars

DistinctVertexIds ==
    {e[1] : e \in Range(graph_edges)} \cup {e[2] : e \in Range(graph_edges)}

\* C2 as stated: calculate returns |edges| - |distinct vertex ids| + 2 * P
\* with P the number of top-level items of the file.
ClaimC2 ==
    pc = "returned" =>
        complexity = Len(graph_edges) - Cardinality(DistinctVertexIds)
                        + 2 * Len(file.items)

RECURSIVE ChildlessOfItem(_)
\* the identities of the syntax nodes under an item that the walk does not
\* expand any further
ChildlessOfItem(item) ==
    IF item.kind \notin Dispatched
    THEN {get_node("Item", item)}
    ELSE IF item.kind = "Mod" /\ item.has_content /\ item.items # <<>>
         THEN UNION {ChildlessOfItem(i) : i \in Range(item.items)}
         ELSE {get_node(ItemType(item), item)}

ChildlessOfFile(f) ==
    IF f.items = <<>>
    THEN {get_node("File", f)}
    ELSE UNION {ChildlessOfItem(i) : i \in Range(f.items)}

\* C2, amended: calculate returns |edges| - |distinct vertex ids| + 2 * L,
\* the vertex ids including the parent 0 of the file and L being the number
\* of distinct childless syntax nodes of the walk (the vertices that are the
\* source of no edge); a file without items yields 1.
TheoremC2 ==
    pc = "returned" =>
        /\ complexity = Len(graph_edges) - (Cardinality(graph_nodes) + 1)
                           + 2 * Cardinality(ChildlessOfFile(file))
        /\ file.items = <<>> => complexity = 1

\* a file whose only item is a module holding two different items has been
\* measured
WitnessC2 ==
    /\ pc = "returned"
    /\ Len(file.items) = 1
    /\ file.items[1].kind = "Mod"
    /\ Len(file.items[1].items) = 2
    /\ file.items[1].items[1] # file.items[1].items[2]
    /\ complexity = 3

\* the identity of the syntax node the innermost pending call visits
VisitedNode ==
    get_node(IF Top.fn = "parse_file" THEN "File"
             ELSE IF Top.fn = "parse_item" THEN "Item"
             ELSE ItemType(Top.ast),
             Top.ast)

\* one visit of the edge-list builder: one edge parent -> node is appended,
\* the identity is registered iff it was absent, and calls for the children
\* are made only when it was absent
VisitStep ==
    call_stack # <<>> =>
        /\ graph_edges' = Append(graph_edges, <<Top.parent, VisitedNode>>)
        /\ graph_nodes' = graph_nodes \cup {VisitedNode}
        /\ VisitedNode \in graph_nodes => call_stack' = Tail(call_stack)

DuplicateTopLevel == Len(file.items) = 2 /\ file.items[1] = file.items[2]

\* the item has no two identical items inside it
NoInnerDuplicate(item) ==
    \A i, j \in 1..Len(item.items) : item.items[i] = item.items[j] => i = j

\* C11: every visit of a syntax node appends exactly one edge parent -> node
\* whether or not the identity is registered, registers the identity iff it
\* was absent and descends only when it was absent; the second of two
\* identical top-level items therefore adds one edge File -> Item, no vertex
\* and nothing of its subtree (one edge more than vertices at the end).
TheoremC11 ==
    /\ [][VisitStep]_vars
    /\ [](call_stack = <<>> /\ DuplicateTopLevel /\ NoInnerDuplicate(file.items[1]) =>
            /\ Len(graph_edges) = Cardinality(graph_nodes) + 1
            /\ graph_edges[Len(graph_edges)] =
                   <<get_node("File", file), get_node("Item", file.items[1])>>)

\* a module holding two items, written twice at top level, has been walked:
\* six vertices, and a seventh edge for the second occurrence
WitnessC11 ==
    /\ call_stack = <<>>
    /\ DuplicateTopLevel
    /\ file.items[1].kind = "Mod"
    /\ Len(file.items[1].items) = 2
    /\ NoInnerDuplicate(file.items[1])
    /\ Cardinality(graph_nodes) = 6
    /\ Len(graph_edges) = 7

\* C13 as stated: both endpoints of every edge of the edge list are members
\* of the registered vertex set nodes.
ClaimC13 ==
    \A e \in Range(graph_edges) : e[1] \in graph_nodes /\ e[2] \in graph_nodes

\* C13, amended: the child of every edge is registered, and so is the parent
\* of every edge but the first, whose parent is the literal 0 that
\* ASTGraph::new passes for the file and that is never registered.
TheoremC13 ==
    /\ Zero \notin graph_nodes
    /\ \A i \in 1..Len(graph_edges) :
          /\ graph_edges[i][2] \in graph_nodes
          /\ IF i = 1 THEN graph_edges[i][1] = Zero
                      ELSE graph_edges[i][1] \in graph_nodes

\* a file with an inline module holding an item has been walked: edges from
\* 0, from the file, from the Item, and from the module
WitnessC13 ==
    /\ call_stack = <<>>
    /\ Len(file.items) = 1
    /\ file.items[1].kind = "Mod"
    /\ Len(file.items[1].items) = 1
    /\ Len(graph_edges) >= 4
    /\ graph_edges[1] = <<Zero, get_node("File", file)>>
    /\ graph_edges[4][1] = get_node("ItemMod", file.items[1])

RECURSIVE ItemsUnder(_)
\* the items of the sequence and of the inline modules in it, at any depth
ItemsUnder(items) ==
    UNION {{items[i]} \cup (IF items[i].kind = "Mod" /\ items[i].has_content
                            THEN ItemsUnder(items[i].items) ELSE {}) :
              i \in 1..Len(items)}

\* C15: once the edge-list builder has walked the file, without any error,
\* an item of kind Type, Struct, Enum, Union, Trait, TraitAlias, Impl, Macro,
\* Macro2 or Verbatim has given its own vertex and nothing below it (alone in
\* a file: two vertices and two edges, the file's and its own), and every
\* item nested in an inline module, at any depth, has an edge from the
\* module's vertex to its own and is expanded by its kind in turn.
TheoremC15 ==
    /\ pc \in {"running", "returned"}
    /\ call_stack = <<>> =>
          /\ \A it \in ItemsUnder(file.items) :
                /\ get_node("Item", it) \in graph_nodes
                /\ it.kind \in LeafKinds =>
                      /\ get_node(ItemType(it), it) \notin graph_nodes
                      /\ \A e \in Range(graph_edges) : e[1] # get_node("Item", it)
                /\ it.kind = "Mod" =>
                      /\ <<get_node("Item", it), get_node("ItemMod", it)>>
                            \in Range(graph_edges)
                      /\ \A j \in 1..Len(it.items) :
                            <<get_node("ItemMod", it), get_node("Item", it.items[j])>>
                                \in Range(graph_edges)
          /\ Len(file.items) = 1 /\ file.items[1].kind \in LeafKinds =>
                Len(graph_edges) = 2 /\ Cardinality(graph_nodes) = 2

\* a struct inside MaxDepth inline modules has been walked and has its edge
\* from the innermost module
WitnessC15 ==
    /\ call_stack = <<>>
    /\ file.items = <<Nest(MaxDepth)>>
    /\ <<get_node("ItemMod", Nest(1)), get_node("Item", Nest(0))>> \in Range(graph_edges)
    /\ Len(graph_edges) = 2 * MaxDepth + 2

(***************************************************************************)
(* src/parsers/rust_parser.rs: the decision-point counter                  *)
(*                                                                         *)
(* A syn::Expr is [kind, args, block] and a syn::Stmt is [kind, args,      *)
(* block] with the expression of Stmt::Expr and Stmt::Semi in args; a      *)
(* syn::Block is the sequence of its statements.                           *)
(*   Array    args = elems                                                 *)
(*   Assign   args = <<left, right>>      (AssignOp alike)                 *)
(*   Block    block = the block                                            *)
(*   Break    args = <<>> or <<expr>>                                      *)
(*   If       block = then_branch, args = <<>> or <<else_branch>>;         *)
(*            the condition is never visited and is left out               *)
(*   Loop     block = body                                                 *)
(*   Call     none                                                         *)
(***************************************************************************)
Expr(k, args, block) == [kind |-> k, args |-> args, block |-> block]

StmtExpr(e) == [kind |-> "Expr", args |-> <<e>>, block |-> <<>>]

StmtSemi(e) == [kind |-> "Semi", args |-> <<e>>, block |-> <<>>]

StmtLocal == [kind |-> "Local", args |-> <<>>, block |-> <<>>]

StmtItem == [kind |-> "Item", args |-> <<>>, block |-> <<>>]

Call == Expr("Call", <<>>, <<>>)

EmptyIf == Expr("If", <<>>, <<>>)

RECURSIVE Sum(_)
Sum(s) == IF s = <<>> THEN 0 ELSE Head(s) + Sum(Tail(s))

RECURSIVE process_block(_), process_expr(_), process_expr_array(_),
          process_expr_assign(_), process_expr_assign_op(_),
          process_expr_block(_), process_expr_break(_), process_expr_if(_),
          process_block_until_other(_)

\* process_block leaving the loop at the first statement that is not a
\* Stmt::Expr
process_block_until_other(block) ==
    IF block = <<>> \/ block[1].kind # "Expr"
    THEN 0
    ELSE process_expr(block[1].args[1]) + process_block_until_other(Tail(block))

\* impl Process for syn::Block
process_block(block) ==
    Sum([i \in 1..Len(block) |->
            IF block[i].kind = "Expr" THEN process_expr(block[i].args[1]) ELSE 0])

\* impl Process for syn::Expr
process_expr(e) ==
    CASE e.kind = "Array" -> process_expr_array(e)
      [] e.kind = "Assign" -> process_expr_assign(e)
      [] e.kind = "AssignOp" -> process_expr_assign_op(e)
      [] e.kind = "Block" -> process_expr_block(e)
      [] e.kind = "Break" -> process_expr_break(e)
      [] e.kind = "If" -> process_expr_if(e)
      [] OTHER -> 0

\* impl Process for syn::ExprArray
process_expr_array(e) ==
    Sum([i \in 1..Len(e.args) |-> process_expr(e.args[i])])

\* impl Process for syn::ExprAssign
process_expr_assign(e) == process_expr(e.args[1]) + process_expr(e.args[2])

\* impl Process for syn::ExprAssignOp
process_expr_assign_op(e) == process_expr(e.args[1]) + process_expr(e.args[2])

\* impl Process for syn::ExprBlock
process_expr_block(e) == process_block(e.block)

\* impl Process for syn::ExprBreak
process_expr_break(e) ==
    1 + (IF e.args # <<>> THEN process_expr(e.args[1]) ELSE 0)

\* process_expr_if without the descent into the else branch
process_expr_if_no_else(e) == 1 + process_block(e.block)

\* impl Process for syn::ExprIf
process_expr_if(e) ==
    1 + process_block(e.block)
      + (IF e.args # <<>> THEN process_expr(e.args[1]) ELSE 0)

(***************************************************************************)
(* Function bodies handed to the counter.                                  *)
(***************************************************************************)
Exprs0 ==
    {Call, EmptyIf, Expr("Break", <<>>, <<>>), Expr("Array", <<>>, <<>>),
     Expr("Block", <<>>, <<>>), Expr("Loop", <<>>, <<>>)}

Blocks0 ==
    {<<>>, <<StmtLocal>>, <<StmtSemi(EmptyIf)>>} \cup {<<StmtExpr(e)>> : e \in Exprs0}

Exprs1 ==
    Exprs0
      \cup {Expr("Array", <<e>>, <<>>) : e \in Exprs0}
      \cup {Expr("Assign", <<Call, e>>, <<>>) : e \in Exprs0}
      \cup {Expr("AssignOp", <<e, Call>>, <<>>) : e \in Exprs0}
      \cup {Expr("Break", <<e>>, <<>>) : e \in Exprs0}
      \cup {Expr(k, <<>>, b) : k \in {"Block", "Loop", "If"}, b \in Blocks0}

\* the blocks of an if / else if / else chain
ChainBlocks == {<<>>, <<StmtExpr(Call)>>, <<StmtExpr(EmptyIf)>>}

RECURSIVE ElseBranches(_)
\* the else branches that hold k `else if` clauses, with and without a
\* final `else`
ElseBranches(k) ==
    IF k = 0
    THEN {<<>>} \cup {<<Expr("Block", <<>>, b)>> : b \in ChainBlocks}
    ELSE {<<Expr("If", t, b)>> : t \in ElseBranches(k - 1), b \in ChainBlocks}

IfChains ==
    UNION {{Expr("If", t, b) : t \in ElseBranches(k), b \in ChainBlocks} :
              k \in 0..MaxChain}

TopStmts ==
    {StmtLocal, StmtItem, StmtSemi(EmptyIf)} \cup {StmtExpr(e) : e \in Exprs1}

Bodies == SeqUpTo(TopStmts, MaxStmts) \cup {<<StmtExpr(c)>> : c \in IfChains}

WalkIdle == file = [items |-> <<>>] /\ call_stack = <<>>

CounterInit ==
    /\ body \in Bodies
    /\ complexity = 0
    /\ pc = "running"
    /\ WalkIdle /\ CyclomaticIdle /\ GraphIdle /\ TreeIdle /\ LexerIdle /\ PoolIdle

\* the call (*ast.block).process() on the body of a function or method
process ==
    /\ pc = "running"
    /\ complexity' = process_block(body)
    /\ pc' = "returned"
    /\ UNCHANGED <<file, call_stack, body, cyclomaticVars, graphVars, treeVars,
                   lexerVars, poolVars>>

CounterNext == process

SpecCounter == CounterInit /\ [][CounterNext]_vars

RECURSIVE ContainsIfBlock(_), ContainsIfExpr(_)
\* an `if` occurs somewhere in the block, at any depth and in any position
ContainsIfBlock(block) ==
    \E i \in 1..Len(block) :
        \/ \E j \in 1..Len(block[i].args) : ContainsIfExpr(block[i].args[j])
        \/ ContainsIfBlock(block[i].block)

ContainsIfExpr(e) ==
    \/ e.kind = "If"
    \/ \E j \in 1..Len(e.args) : ContainsIfExpr(e.args[j])
    \/ ContainsIfBlock(e.block)

\* C4: the counter returns 0 for every body that contains no `if`.
ClaimC4 ==
    (pc = "returned" /\ ~ContainsIfBlock(body)) => complexity = 0

\* the body is a single `if` expression
SingleIf == Len(body) = 1 /\ body[1].kind = "Expr" /\ body[1].args[1].kind = "If"

RECURSIVE ElseIfClauses(_)
\* the number of `else if` clauses hanging off an `if`
ElseIfClauses(e) ==
    IF e.args # <<>> /\ e.args[1].kind = "If"
    THEN 1 + ElseIfClauses(e.args[1]) ELSE 0

RECURSIVE PlainChain(_)
\* every block of the chain is empty or holds a call, the final else included
PlainChain(e) ==
    /\ e.block \in {<<>>, <<StmtExpr(Call)>>}
    /\ e.args # <<>> => PlainChain(e.args[1])

\* C5: an `if` counts 1 + count(then branch) + count(else branch, when
\* present); an `if` followed by k `else if` clauses whose blocks hold no
\* branch counts k + 1, with or without a final `else`.
TheoremC5 ==
    (pc = "returned" /\ SingleIf) =>
        LET e == body[1].args[1]
        IN /\ complexity = 1 + process_block(e.block)
                             + (IF e.args = <<>> THEN 0 ELSE process_expr(e.args[1]))
           /\ PlainChain(e) => complexity = ElseIfClauses(e) + 1

\* `if {} else if {} else {}` has been counted and gave 2
WitnessC5 ==
    /\ pc = "returned"
    /\ body = <<StmtExpr(Expr("If",
                   <<Expr("If", <<Expr("Block", <<>>, <<>>)>>, <<>>)>>, <<>>))>>
    /\ complexity = 2

\* the statement is a bare nested block used as an expression
IsBareBlock(stmt) == stmt.kind = "Expr" /\ stmt.args[1].kind = "Block"

RECURSIVE Inline(_)
\* the block with the statements of every bare nested block written in its
\* place
Inline(block) ==
    IF block = <<>>
    THEN <<>>
    ELSE (IF IsBareBlock(Head(block)) THEN Inline(Head(block).args[1].block)
                                      ELSE <<Head(block)>>)
            \o Inline(Tail(block))

\* the statement has a form the counter handles
Supported(stmt) ==
    /\ stmt.kind = "Expr"
    /\ stmt.args[1].kind \in {"Array", "Assign", "AssignOp", "Block", "Break", "If"}

\* C14: the count of a block is the sum of the counts of its statements; an
\* empty block counts 0; a bare nested block counts what its contents count
\* and nothing for itself; a statement of an unsupported form counts 0 and
\* the statements after it are still counted.
TheoremC14 ==
    pc = "returned" =>
        /\ complexity = Sum([i \in 1..Len(body) |-> process_block(<<body[i]>>)])
        /\ body = <<>> => complexity = 0
        /\ complexity = process_block(Inline(body))
        /\ \A i \in 1..Len(body) :
              /\ IsBareBlock(body[i]) =>
                    process_block(<<body[i]>>) = process_block(body[i].args[1].block)
              /\ ~Supported(body[i]) => process_block(<<body[i]>>) = 0
        /\ complexity = process_block(SelectSeq(body, Supported))

\* `let ..; { if .. {} }` has been counted: the `let` gave 0 and the nested
\* block after it gave the 1 of its `if`
WitnessC14 ==
    /\ pc = "returned"
    /\ body = <<StmtLocal, StmtExpr(Expr("Block", <<>>, <<StmtExpr(EmptyIf)>>))>>
    /\ complexity = 1

(***************************************************************************)
(* src/parsers/rust_parser.rs: ComplexityTree, and src/bin/main.rs         *)
(*                                                                         *)
(* The items of a file handed to ComplexityTree::generate carry what       *)
(* process_file reads: [kind, name, block, self_ty, items].                *)
(***************************************************************************)
Type(k, segments) == [kind |-> k, segments |-> segments]

NoType == Type("None", <<>>)

TreeItem(k, name, block, self_ty, items) ==
    [kind |-> k, name |-> name, block |-> block, self_ty |-> self_ty, items |-> items]

IfBody == <<StmtExpr(EmptyIf)>>

FnItems == {TreeItem("Fn", "foo", b, NoType, <<>>) : b \in {<<>>, IfBody}}

ImplItems ==
    {TreeItem("Method", "bar", IfBody, NoType, <<>>),
     TreeItem("Method", "baz", <<>>, NoType, <<>>),
     TreeItem("Const", "N", <<>>, NoType, <<>>)}

PathType == Type("Path", <<"Foo">>)

\* self types that are not a path; process_item_impl never reads the items
\* of such an impl block
OtherTypes == {Type("Tuple", <<>>), Type("Reference", <<>>)}

ImplBlocks ==
    {TreeItem("Impl", "", <<>>, PathType, s) : s \in SeqUpTo(ImplItems, MaxImplItems)}
      \cup {TreeItem("Impl", "", <<>>, t, <<>>) : t \in OtherTypes}

OtherItems == {TreeItem(k, "m", <<>>, NoType, <<>>) : k \in {"Mod", "Trait", "Struct"}}

TreeItems == FnItems \cup ImplBlocks \cup OtherItems

FilePath == "lib.rs"

TreeFiles == {[path |-> FilePath, items |-> s] : s \in SeqUpTo(TreeItems, MaxTreeItems)}

\* ComplexityNode::new
ComplexityNode_new(name, kind) ==
    [name |-> name, kind |-> kind, complexity |-> 0, children |-> <<>>]

\* ComplexityNode::with_complexity
with_complexity(node, c) == [node EXCEPT !.complexity = c]

\* ComplexityNode::add_child
add_child(node, child) == [node EXCEPT !.children = Append(@, child)]

TreeFrame ==
    UNCHANGED <<complexity, body, cyclomaticVars, graphVars, lexerVars, poolVars>>

\* ComplexityTree::generate up to the call of process_file; get_ast has
\* parsed the file
TreeInit ==
    /\ file \in TreeFiles
    /\ root = ComplexityNode_new(file.path, "File")
    /\ call_stack = <<Frame("process_file", file.items, "")>>
    /\ output = <<>>
    /\ complexity = 0
    /\ pc = "running"
    /\ CyclomaticIdle /\ GraphIdle /\ CounterIdle /\ LexerIdle /\ PoolIdle

NextItem == Head(Top.ast)

ProcessFileReturnsTo == <<Frame("process_file", Tail(Top.ast), "")>> \o Tail(call_stack)

\* process_item_fn adding the child in front of its siblings
process_item_fn_front ==
    /\ Running("process_file")
    /\ Top.ast # <<>>
    /\ NextItem.kind = "Fn"
    /\ LET node == with_complexity(ComplexityNode_new(NextItem.name, "Fn"),
                                   process_block(NextItem.block))
       IN root' = [root EXCEPT !.children = <<node>> \o @]
    /\ call_stack' = ProcessFileReturnsTo
    /\ UNCHANGED <<file, pc, output>>
    /\ TreeFrame

\* process_file on an Item::Fn: process_item_fn
process_item_fn ==
    /\ Running("process_file")
    /\ Top.ast # <<>>
    /\ NextItem.kind = "Fn"
    /\ LET node == with_complexity(ComplexityNode_new(NextItem.name, "Fn"),
                                   process_block(NextItem.block))
       IN root' = add_child(root, node)
    /\ call_stack' = ProcessFileReturnsTo
    /\ UNCHANGED <<file, pc, output>>
    /\ TreeFrame

\* get_impl_resolved_name: the identifier, or "Err" for the ParseError
get_impl_resolved_name(ast) ==
    IF ast.self_ty.kind = "Path"
    THEN [ok |-> TRUE, ident |-> ast.self_ty.segments[1]]
    ELSE [ok |-> FALSE, ident |-> "Identifier not found for impl"]

\* process_impl_item_method
process_impl_item_method(ast, parent) ==
    add_child(parent, with_complexity(ComplexityNode_new(ast.name, "Method"),
                                      process_block(ast.block)))

RECURSIVE process_impl_items(_, _)
\* the loop of process_item_impl over the items of the impl block
process_impl_items(items, node) ==
    IF items = <<>> THEN node
    ELSE process_impl_items(Tail(items),
            IF Head(items).kind = "Method"
            THEN process_impl_item_method(Head(items), node)
            ELSE node)

\* process_file on an Item::Impl: process_item_impl, which unwraps the result
\* of get_impl_resolved_name and so panics on an Err
process_item_impl ==
    /\ Running("process_file")
    /\ Top.ast # <<>>
    /\ NextItem.kind = "Impl"
    /\ LET resolved == get_impl_resolved_name(NextItem)
       IN IF resolved.ok
          THEN /\ root' = add_child(root,
                              process_impl_items(NextItem.items,
                                  ComplexityNode_new(resolved.ident, "Impl")))
               /\ call_stack' = ProcessFileReturnsTo
               /\ pc' = pc
          ELSE /\ root' = <<>>
               /\ call_stack' = <<>>
               /\ pc' = "panicked"
    /\ UNCHANGED <<file, output>>
    /\ TreeFrame

\* process_file on any other item
process_item_other ==
    /\ Running("process_file")
    /\ Top.ast # <<>>
    /\ NextItem.kind \notin {"Fn", "Impl"}
    /\ call_stack' = ProcessFileReturnsTo
    /\ UNCHANGED <<file, pc, root, output>>
    /\ TreeFrame

\* process_file returns and ComplexityTree::generate returns Ok
generate ==
    /\ Running("process_file")
    /\ Top.ast = <<>>
    /\ call_stack' = Tail(call_stack)
    /\ pc' = "generated"
    /\ UNCHANGED <<file, root, output>>
    /\ TreeFrame

\* a println! call: the format string and its arguments
Println(fmt, args) == [fmt |-> fmt, args |-> args]

HeaderFmt == "File: {}"

ComplexityFmt == "[{}] Complexity => {}"

\* the text a println! call writes, without the newline
Render(line) ==
    CASE line.fmt = HeaderFmt -> "File: " \o line.args[1]
      [] line.fmt = ComplexityFmt ->
            "[" \o line.args[1] \o "] Complexity => " \o line.args[2]
      [] OTHER -> line.fmt

Displays(children, path) ==
    [i \in 1..Len(children) |-> Frame("display", children[i], path)]

\* display_complexity handing the header to display as the path
display_complexity_from_root ==
    /\ pc = "generated"
    /\ output' = <<Println(HeaderFmt, <<root.name>>)>>
    /\ call_stack' = Displays(root.children, "File: " \o root.name)
                        \o <<Frame("println", <<>>, "")>>
    /\ pc' = "displaying"
    /\ UNCHANGED <<file, root>>
    /\ TreeFrame

\* display_complexity up to the loop over the children of the root
display_complexity ==
    /\ pc = "generated"
    /\ output' = <<Println(HeaderFmt, <<root.name>>)>>
    /\ call_stack' = Displays(root.children, "") \o <<Frame("println", <<>>, "")>>
    /\ pc' = "displaying"
    /\ UNCHANGED <<file, root>>
    /\ TreeFrame

\* the path display builds for a node
path_here(node, path) ==
    (IF path # "" THEN path \o " > " ELSE path) \o node.kind \o ": " \o node.name

\* display
display ==
    /\ Running("display")
    /\ LET node == Top.ast
           here == path_here(node, Top.parent)
       IN IF node.children = <<>>
          THEN /\ output' = Append(output,
                                Println(ComplexityFmt, <<here, ToString(node.complexity)>>))
               /\ call_stack' = Tail(call_stack)
          ELSE /\ output' = output
               /\ call_stack' = Displays(node.children, here) \o Tail(call_stack)
    /\ UNCHANGED <<file, pc, root>>
    /\ TreeFrame

\* the closing println!() of display_complexity
display_complexity_end ==
    /\ Running("println")
    /\ output' = Append(output, Println("", <<>>))
    /\ call_stack' = Tail(call_stack)
    /\ pc' = "returned"
    /\ UNCHANGED <<file, root>>
    /\ TreeFrame

TreeNext ==
    \/ process_item_fn
    \/ process_item_impl
    \/ process_item_other
    \/ generate
    \/ display_complexity
    \/ display
    \/ display_complexity_end

SpecTree == TreeInit /\ [][TreeNext]_vars

IsFnOrImpl(item) == item.kind \in {"Fn", "Impl"}

IsMethod(item) == item.kind = "Method"

\* the leaf expected for a function or a method
LeafOf(item, kind) ==
    [name |-> item.name, kind |-> kind, complexity |-> process_block(item.block),
     children |-> <<>>]

\* the node expected for a top-level fn or impl item
NodeOf(item) ==
    IF item.kind = "Fn"
    THEN LeafOf(item, "Fn")
    ELSE LET methods == SelectSeq(item.items, IsMethod)
         IN [name |-> item.self_ty.segments[1], kind |-> "Impl", complexity |-> 0,
             children |-> [i \in 1..Len(methods) |-> LeafOf(methods[i], "Method")]]

Generated == pc \in {"generated", "displaying", "returned"}

FooAndImplFooBar ==
    <<TreeItem("Fn", "foo", IfBody, NoType, <<>>),
      TreeItem("Impl", "", <<>>, Type("Path", <<"Foo">>),
               <<TreeItem("Method", "bar", IfBody, NoType, <<>>)>>)>>

\* C6: the tree generate returns has a File root whose children are, in
\* source order, one Fn leaf per top-level fn and one Impl node per top-level
\* impl, each Impl node holding one Method leaf per method in order; no other
\* item yields a node, and every leaf carries the count of its own body.
TheoremC6 ==
    Generated =>
        LET kept == SelectSeq(file.items, IsFnOrImpl)
        IN /\ root.kind = "File"
           /\ root.name = file.path
           /\ root.children = [i \in 1..Len(kept) |-> NodeOf(kept[i])]
           /\ file.items = FooAndImplFooBar =>
                /\ Len(root.children) = 2
                /\ root.children[1].children = <<>>
                /\ root.children[1].name = "foo"
                /\ Len(root.children[2].children) = 1
                /\ root.children[2].name = "Foo"
                /\ root.children[2].children[1].name = "bar"

\* the tree of a function followed by `impl Foo { fn bar() {...} }` has been
\* returned
WitnessC6 ==
    /\ pc = "generated"
    /\ file.items = FooAndImplFooBar
    /\ Len(root.children) = 2

HasNonPathImpl ==
    \E i \in 1..Len(file.items) :
        file.items[i].kind = "Impl" /\ file.items[i].self_ty.kind # "Path"

\* C7: when some impl's self type is not a path, generate ends by returning
\* an error to its caller (pc = "failed") and no tree; otherwise it returns a
\* tree; nothing else happens.
ClaimC7 ==
    (pc # "running") =>
        IF HasNonPathImpl THEN pc = "failed" ELSE Generated

RECURSIVE Flatten(_)
Flatten(ss) == IF ss = <<>> THEN <<>> ELSE Head(ss) \o Flatten(Tail(ss))

ComplexityText(path, n) == "[" \o path \o "] Complexity => " \o ToString(n)

\* the lines expected for a top-level item, the path starting with `prefix`
LinesOf(item, prefix) ==
    IF item.kind = "Fn"
    THEN <<ComplexityText(prefix \o "Fn: " \o item.name, process_block(item.block))>>
    ELSE LET methods == SelectSeq(item.items, IsMethod)
             impl == prefix \o "Impl: " \o item.self_ty.segments[1]
         IN IF methods = <<>>
            THEN <<ComplexityText(impl, 0)>>
            ELSE [i \in 1..Len(methods) |->
                    ComplexityText(impl \o " > Method: " \o methods[i].name,
                                   process_block(methods[i].block))]

Report(prefix) ==
    LET kept == SelectSeq(file.items, IsFnOrImpl)
    IN <<"File: " \o file.path>>
         \o Flatten([i \in 1..Len(kept) |-> LinesOf(kept[i], prefix)])
         \o <<"">>

Rendered == [i \in 1..Len(output) |-> Render(output[i])]

EveryImplHasMethod ==
    \A i \in 1..Len(file.items) :
        file.items[i].kind = "Impl" => SelectSeq(file.items[i].items, IsMethod) # <<>>

\* C8 as stated, for the files whose impl blocks all have a method: the
\* report is the header, then in pre-order one line per function and method
\* whose path starts at the File node, then one blank line.
ClaimC8 ==
    (pc = "returned" /\ EveryImplHasMethod) =>
        Rendered = Report("File: " \o file.path \o " > ")

\* C8, amended: the report is the header `File: <path>`, then in pre-order
\* one line per childless node whose path starts at the child of the File
\* node (`[Fn: f] ...`, `[Impl: T > Method: m] ...`, and `[Impl: T]
\* Complexity => 0` for an impl without methods), then one blank line.
TheoremC8 ==
    pc = "returned" => Rendered = Report("")

\* the report of a function followed by `impl Foo { fn bar() {...} }`
WitnessC8 ==
    /\ pc = "returned"
    /\ file.items = FooAndImplFooBar
    /\ Rendered = <<"File: lib.rs", "[Fn: foo] Complexity => 1",
                    "[Impl: Foo > Method: bar] Complexity => 1", "">>

RECURSIVE CountNodes(_, _)
\* the nodes of the given kinds in the trees of a sequence of nodes
CountNodes(ns, kinds) ==
    IF ns = <<>> THEN 0
    ELSE (IF Head(ns).kind \in kinds THEN 1 ELSE 0)
           + CountNodes(Head(ns).children, kinds) + CountNodes(Tail(ns), kinds)

IsComplexityLine(line) == line.fmt = ComplexityFmt

\* C9: the report holds one `Complexity =>` line per Fn or Method node of
\* the tree and none for an Impl node, also when an impl has no methods.
ClaimC9 ==
    pc = "returned" =>
        /\ Len(SelectSeq(output, IsComplexityLine))
              = CountNodes(root.children, {"Fn", "Method"})
        /\ \A i \in 1..Len(root.children) :
              root.children[i].kind = "Impl" =>
                 \A j \in 1..Len(output) :
                    Render(output[j]) # ComplexityText("Impl: " \o root.children[i].name, 0)

(***************************************************************************)
(* src/parsers/delphi/lexer.rs                                             *)
(*                                                                         *)
(* A &str is the sequence of its characters; lengths and indices are in    *)
(* bytes of the UTF-8 encoding, as in the source.                          *)
(***************************************************************************)
Punctuation ==
    {".", "=", "+", "-", "*", "/", "@", "^", "(", ")", "[", "]", ":", ";"}

Digits == {"0", "1", "2", "3", "4", "5", "6", "7", "8", "9"}

\* char::len_utf8
len_utf8(c) == IF c \in {"é"} THEN 2 ELSE 1

\* char::is_whitespace
is_whitespace(c) == c \in {" ", "\n", "\t", "\r"}

\* char::is_alphabetic
is_alphabetic(c) == c \in {"a", "b", "F", "é"}

\* char::is_digit(10)
is_digit(c) == c \in Digits

\* char::is_alphanumeric
is_alphanumeric(c) == is_alphabetic(c) \/ is_digit(c)

\* str::len
len(s) == Sum([i \in 1..Len(s) |-> len_utf8(s[i])])

\* the byte index n falls on a character boundary of s
is_char_boundary(s, n) == \E k \in 0..Len(s) : len(SubSeq(s, 1, k)) = n

\* &s[n..] for an index the slice accepts
slice_from(s, n) ==
    LET k == CHOOSE k \in 0..Len(s) : len(SubSeq(s, 1, k)) = n
    IN SubSeq(s, k + 1, Len(s))

\* str::starts_with
starts_with(s, pattern) ==
    Len(s) >= Len(pattern) /\ SubSeq(s, 1, Len(pattern)) = pattern

\* take_while: the number of leading characters of s that the predicate
\* accepts, `accepted` being the characters of s it holds of
Taken(s, accepted) ==
    CHOOSE n \in 0..Len(s) :
        /\ \A i \in 1..n : s[i] \in accepted
        /\ n < Len(s) => s[n + 1] \notin accepted

\* take_while
take_while(s, accepted) ==
    LET got == SubSeq(s, 1, Taken(s, accepted))
    IN IF len(got) = 0
       THEN [ok |-> FALSE, kind |-> "NoMatches", text |-> <<>>, bytes_read |-> 0]
       ELSE [ok |-> TRUE, kind |-> "", text |-> got, bytes_read |-> len(got)]

is_identifier_char(c) == c = "_" \/ is_alphanumeric(c)

\* validate_idenifier_char on the first character of a non-empty string
validate_idenifier_char(c) == ~is_digit(c)

\* tokenize_identifier
tokenize_identifier(s) ==
    IF s = <<>>
    THEN [ok |-> FALSE, kind |-> "UnexpectedEOF", text |-> <<>>, bytes_read |-> 0]
    ELSE IF ~validate_idenifier_char(s[1])
    THEN [ok |-> FALSE, kind |-> "InvalidSymbol", text |-> <<>>, bytes_read |-> 0]
    ELSE LET r == take_while(s, {c \in Range(s) : is_identifier_char(c)})
         IN IF r.ok THEN [r EXCEPT !.kind = "Identifier"] ELSE r

\* the characters the closure of tokenize_number accepts: digits, and the
\* first '.' only
NumberLength(s) ==
    CHOOSE n \in 0..Len(s) :
        LET Accepted(k) ==
                /\ \A i \in 1..k : is_digit(s[i]) \/ s[i] = "."
                /\ Cardinality({i \in 1..k : s[i] = "."}) <= 1
        IN Accepted(n) /\ (n < Len(s) => ~Accepted(n + 1))

\* tokenize_number; parse::<f64> rejects a lone "." and parse::<usize> accepts
\* every run of fewer than 20 digits
tokenize_number(s) ==
    LET got == SubSeq(s, 1, NumberLength(s))
        seen_dot == \E i \in 1..Len(got) : got[i] = "."
    IN IF len(got) = 0
       THEN [ok |-> FALSE, kind |-> "NoMatches", text |-> <<>>, bytes_read |-> 0]
       ELSE IF got = <<".">>
       THEN [ok |-> FALSE, kind |-> "ConversionError", text |-> <<>>, bytes_read |-> 0]
       ELSE [ok |-> TRUE, kind |-> IF seen_dot THEN "Decimal" ELSE "Integer",
             text |-> got, bytes_read |-> len(got)]

PunctuationKind(c) ==
    CASE c = "." -> "Dot" [] c = "=" -> "Equals" [] c = "+" -> "Plus"
      [] c = "-" -> "Minus" [] c = "*" -> "Asterisk" [] c = "/" -> "Slash"
      [] c = "@" -> "At" [] c = "^" -> "Carat" [] c = "(" -> "OpenParen"
      [] c = ")" -> "CloseParen" [] c = "[" -> "OpenSquare"
      [] c = "]" -> "CloseSquare" [] c = ":" -> "Colon" [] c = ";" -> "Semicolon"

\* the range pattern '0'..'9' of tokenize_next_token, which leaves '9' out
InDigitRange(c) == c \in Digits \ {"9"}

\* tokenize_next_token; the guard `if c.is_alphabetic()` covers both
\* alternatives of `c @ '_' | c`
tokenize_next_token(s) ==
    IF s = <<>>
    THEN [ok |-> FALSE, kind |-> "UnexpectedEOF", text |-> <<>>, bytes_read |-> 0]
    ELSE LET next == s[1]
         IN IF next \in Punctuation
            THEN [ok |-> TRUE, kind |-> PunctuationKind(next), text |-> <<next>>,
                  bytes_read |-> 1]
            ELSE IF InDigitRange(next) THEN tokenize_number(s)
            ELSE IF is_alphabetic(next) THEN tokenize_identifier(s)
            ELSE [ok |-> FALSE, kind |-> "UnknownCharacter", text |-> <<next>>,
                  bytes_read |-> 0]

\* skip_whitespace
skip_whitespace(s) == take_while(s, {c \in Range(s) : is_whitespace(c)}).bytes_read

RECURSIVE Scan(_, _)
\* the loop of skip_untill
Scan(s, pattern) ==
    IF s # <<>> /\ ~starts_with(s, pattern) THEN Scan(Tail(s), pattern) ELSE s

\* skip_untill: the rest of the string, or a panic when the final slice is
\* out of range
skip_untill(s, pattern) ==
    LET rest == Scan(s, pattern)
    IN IF len(pattern) <= len(rest) /\ is_char_boundary(rest, len(pattern))
       THEN [panic |-> FALSE, rest |-> slice_from(rest, len(pattern))]
       ELSE [panic |-> TRUE, rest |-> <<>>]

comment_blocks ==
    <<<< <<"/", "/">>, <<"\n">> >>, << <<"{">>, <<"}">> >>, << <<"(", "*">>, <<"*", ")">> >>>>

\* skip_comments
skip_comments(s) ==
    LET opened == {i \in 1..Len(comment_blocks) : starts_with(s, comment_blocks[i][1])}
    IN IF opened = {}
       THEN [panic |-> FALSE, bytes |-> 0]
       ELSE LET first == CHOOSE i \in opened : \A j \in opened : i <= j
                r == skip_untill(s, comment_blocks[first][2])
            IN [panic |-> r.panic, bytes |-> len(s) - len(r.rest)]

RECURSIVE skip_loop(_, _)
\* the loop of skip: `remaining` at the start of an iteration
skip_loop(s, remaining) ==
    LET ws == skip_whitespace(remaining)
        after_ws == slice_from(remaining, ws)
        cm == skip_comments(after_ws)
        after_cm == slice_from(after_ws, cm.bytes)
    IN IF cm.panic THEN [panic |-> TRUE, bytes |-> 0]
       ELSE IF ws + cm.bytes = 0 THEN [panic |-> FALSE, bytes |-> len(s) - len(remaining)]
       ELSE skip_loop(s, after_cm)

\* skip
skip(s) == skip_loop(s, s)

Alphabet == {" ", "\n", "a", "é", "1", "/", "{", "}", "(", "*", ")", "%"}

Sources == SeqUpTo(Alphabet, MaxInput)

LexerFrame ==
    UNCHANGED <<file, call_stack, complexity, cyclomaticVars, graphVars,
                counterVars, treeVars, poolVars>>

\* Tokenizer::new, at the start of tokenize
LexerInit ==
    /\ src \in Sources
    /\ data = src
    /\ cur_idx = 0
    /\ tokens = <<>>
    /\ error = <<>>
    /\ complexity = 0
    /\ pc = "running"
    /\ WalkIdle /\ CyclomaticIdle /\ GraphIdle /\ CounterIdle /\ TreeIdle
    /\ PoolIdle

Tokenizer == [data |-> data, cur_idx |-> cur_idx]

\* Tokenizer::chomp advancing cur_idx by the characters consumed
chomp_chars(t, num_bytes) ==
    [data |-> slice_from(t.data, num_bytes),
     cur_idx |-> t.cur_idx + (Len(t.data) - Len(slice_from(t.data, num_bytes)))]

\* Tokenizer::chomp
chomp(t, num_bytes) ==
    [data |-> slice_from(t.data, num_bytes), cur_idx |-> t.cur_idx + num_bytes]

\* Tokenizer::skip_whitespace, when skip returns
Skipped == chomp(Tokenizer, skip(data).bytes)

\* next_token panics in skip_untill, and tokenize with it
next_token_panics ==
    /\ pc = "running"
    /\ skip(data).panic
    /\ pc' = "panicked"
    /\ UNCHANGED <<src, data, cur_idx, tokens, error>>
    /\ LexerFrame

\* next_token returns Ok(None) and tokenize returns Ok(tokens)
next_token_none ==
    /\ pc = "running"
    /\ ~skip(data).panic
    /\ Skipped.data = <<>>
    /\ data' = Skipped.data
    /\ cur_idx' = Skipped.cur_idx
    /\ pc' = "ok"
    /\ UNCHANGED <<src, tokens, error>>
    /\ LexerFrame

\* next_token returns Ok(Some(token)) and tokenize pushes it
next_token_some ==
    /\ pc = "running"
    /\ ~skip(data).panic
    /\ Skipped.data # <<>>
    /\ LET start == Skipped.cur_idx
           response == tokenize_next_token(Skipped.data)
           after == chomp(Skipped, response.bytes_read)
       IN /\ response.ok
          /\ data' = after.data
          /\ cur_idx' = after.cur_idx
          /\ tokens' = Append(tokens,
                          <<[kind |-> response.kind, text |-> response.text],
                            start, after.cur_idx>>)
    /\ UNCHANGED <<src, error, pc>>
    /\ LexerFrame

\* fetch_next_token returns the error with the index set, and next_token and
\* tokenize propagate it
next_token_err ==
    /\ pc = "running"
    /\ ~skip(data).panic
    /\ Skipped.data # <<>>
    /\ LET response == tokenize_next_token(Skipped.data)
       IN /\ ~response.ok
          /\ error' = <<[kind |-> response.kind, ch |-> response.text,
                         index |-> Skipped.cur_idx]>>
    /\ data' = Skipped.data
    /\ cur_idx' = Skipped.cur_idx
    /\ pc' = "err"
    /\ UNCHANGED <<src, tokens>>
    /\ LexerFrame

LexerNext ==
    \/ next_token_panics
    \/ next_token_none
    \/ next_token_some
    \/ next_token_err

SpecLexer == LexerInit /\ [][LexerNext]_vars

\* the characters of s between the byte offsets a and b
Between(s, a, b) ==
    LET from == slice_from(s, a)
        k == CHOOSE k \in 0..Len(from) : len(SubSeq(from, 1, k)) = b - a
    IN SubSeq(from, 1, k)

OnBoundaries(a, b) ==
    /\ a <= b
    /\ b <= len(src)
    /\ is_char_boundary(src, a)
    /\ is_char_boundary(src, b)

\* only whitespace and comments lie between the byte offsets a and b
OnlySkipped(a, b) ==
    /\ OnBoundaries(a, b)
    /\ ~skip(Between(src, a, b)).panic
    /\ skip(Between(src, a, b)).bytes = b - a

\* C10: every token carries byte offsets start < end <= len(input) between
\* which the input holds the token's text; successive tokens do not overlap
\* and only skipped whitespace and comments lie before the first token and
\* between two tokens; an UnknownCharacter(c) error of tokenize has the byte
\* offset of c in the input as its index, after the last token and skipped
\* text only.
TheoremC10 ==
    /\ \A i \in 1..Len(tokens) :
          /\ tokens[i][2] < tokens[i][3]
          /\ OnBoundaries(tokens[i][2], tokens[i][3])
          /\ Between(src, tokens[i][2], tokens[i][3]) = tokens[i][1].text
          /\ OnlySkipped(IF i = 1 THEN 0 ELSE tokens[i - 1][3], tokens[i][2])
    /\ (pc = "err" /\ error[1].kind = "UnknownCharacter") =>
          /\ error[1].index < len(src)
          /\ OnBoundaries(error[1].index, len(src))
          /\ slice_from(src, error[1].index)[1] = error[1].ch[1]
          /\ OnlySkipped(IF tokens = <<>> THEN 0 ELSE tokens[Len(tokens)][3],
                         error[1].index)

\* a two-byte identifier, a comment and a token have been read, and then an
\* unknown character
WitnessC10 ==
    /\ pc = "err"
    /\ src = <<"é", "{", "}", "%">>
    /\ tokens = <<<<[kind |-> "Identifier", text |-> <<"é">>], 0, 2>>>>
    /\ error = <<[kind |-> "UnknownCharacter", ch |-> <<"%">>, index |-> 4]>>

\* C17: tokenize is total: it never aborts (an unterminated comment at the
\* end of the input included), every token it pushes spans at least one
\* byte, and it returns Ok(tokens) or Err(ParseError).
ClaimC17 ==
    /\ pc \in {"running", "ok", "err"}
    /\ \A i \in 1..Len(tokens) : tokens[i][2] < tokens[i][3]

(***************************************************************************)
(* tokenize_next_token called on its own, as its tests call it.            *)
(***************************************************************************)
TokenAlphabet == Digits \cup Punctuation \cup {"a", "%"}

TokenInputs == SeqUpTo(TokenAlphabet, MaxToken)

\* the call tokenize_next_token(src)
TokenInit ==
    /\ src \in TokenInputs
    /\ data = <<>>
    /\ cur_idx = 0
    /\ tokens = <<>>
    /\ error = <<>>
    /\ complexity = 0
    /\ pc = "running"
    /\ WalkIdle /\ CyclomaticIdle /\ GraphIdle /\ CounterIdle /\ TreeIdle
    /\ PoolIdle

\* tokenize_next_token returns Ok((kind, bytes_read))
tokenize_next_token_ok ==
    /\ pc = "running"
    /\ LET response == tokenize_next_token(src)
       IN /\ response.ok
          /\ tokens' = <<<<[kind |-> response.kind, text |-> response.text],
                           response.bytes_read>>>>
    /\ pc' = "ok"
    /\ UNCHANGED <<src, data, cur_idx, error>>
    /\ LexerFrame

\* tokenize_next_token returns Err(ParseError)
tokenize_next_token_err ==
    /\ pc = "running"
    /\ LET response == tokenize_next_token(src)
       IN /\ ~response.ok
          /\ error' = <<[kind |-> response.kind, ch |-> response.text, index |-> 0]>>
    /\ pc' = "err"
    /\ UNCHANGED <<src, data, cur_idx, tokens>>
    /\ LexerFrame

TokenNext ==
    \/ tokenize_next_token_ok
    \/ tokenize_next_token_err

SpecToken == TokenInit /\ [][TokenNext]_vars

\* the longest prefix of s made of digits and at most one '.'
NumericPrefix(s) == SubSeq(s, 1, NumberLength(s))

\* C16: for every input whose first character is a decimal digit '0' .. '9'
\* tokenize_next_token returns a numeric token (Decimal when a '.' is
\* consumed, Integer otherwise) over the longest prefix made of digits and
\* at most one '.'; for an input that starts with one of
\* . = + - * / @ ^ ( ) [ ] : ; it returns the punctuation token of that
\* character with 1 byte consumed.
ClaimC16 ==
    (pc # "running" /\ src # <<>>) =>
        /\ src[1] \in Digits =>
              /\ pc = "ok"
              /\ tokens[1][1].text = NumericPrefix(src)
              /\ tokens[1][2] = len(NumericPrefix(src))
              /\ tokens[1][1].kind =
                    IF "." \in Range(NumericPrefix(src)) THEN "Decimal" ELSE "Integer"
        /\ src[1] \in Punctuation =>
              /\ pc = "ok"
              /\ tokens[1] = <<[kind |-> PunctuationKind(src[1]), text |-> <<src[1]>>], 1>>

(***************************************************************************)
(* src/thread_pool.rs                                                      *)
(*                                                                         *)
(* The thread that owns the pool calls execute and then drops the pool;    *)
(* the worker threads run their loop from the moment Worker::new spawns    *)
(* them.  The channel is the FIFO queue of std::sync::mpsc.  The           *)
(* statement                                                               *)
(*     let message = receiver.lock().unwrap().recv().unwrap();             *)
(* is three steps of a worker: lock() returns the guard, recv() returns    *)
(* a message, and the temporary guard is dropped at the end of the         *)
(* statement.  A job is the number of the execute call that sent it; its   *)
(* call job() is a step that starts it and a step that returns.  The       *)
(* Sender is dropped after drop has returned, so recv() never fails.       *)
(***************************************************************************)
Workers == 0..(size - 1)

NewJob(job) == [kind |-> "NewJob", job |-> job]

Terminate == [kind |-> "Terminate", job |-> 0]

PoolFrame ==
    UNCHANGED <<file, call_stack, complexity, pc, cyclomaticVars, graphVars,
                counterVars, treeVars, lexerVars>>

\* ThreadPool::new(size)
PoolInit ==
    /\ size \in 1..MaxWorkers
    /\ channel = <<>>
    /\ lock = Unlocked
    /\ worker_pc = [w \in Workers |-> "lock"]
    /\ received = [w \in Workers |-> <<>>]
    /\ main_pc = "alive"
    /\ jobs_sent = 0
    /\ terminates_sent = 0
    /\ joined = 0
    /\ ran = <<>>
    /\ finished = {}
    /\ complexity = 0
    /\ pc = "running"
    /\ WalkIdle /\ CyclomaticIdle /\ GraphIdle /\ CounterIdle /\ TreeIdle /\ LexerIdle

\* ThreadPool::execute
execute ==
    /\ main_pc = "alive"
    /\ jobs_sent < MaxJobs
    /\ channel' = Append(channel, NewJob(jobs_sent + 1))
    /\ jobs_sent' = jobs_sent + 1
    /\ UNCHANGED <<size, lock, worker_pc, received, main_pc, terminates_sent, joined,
                   ran, finished>>
    /\ PoolFrame

\* the pool goes out of scope and Drop::drop is entered
drop ==
    /\ main_pc = "alive"
    /\ main_pc' = "terminate"
    /\ UNCHANGED <<size, channel, lock, worker_pc, received, jobs_sent,
                   terminates_sent, joined, ran, finished>>
    /\ PoolFrame

\* drop_send_terminate putting the message in front of the queued ones
drop_send_terminate_first ==
    /\ main_pc = "terminate"
    /\ channel' = <<Terminate>> \o channel
    /\ terminates_sent' = terminates_sent + 1
    /\ main_pc' = IF terminates_sent + 1 = size THEN "join" ELSE "terminate"
    /\ UNCHANGED <<size, lock, worker_pc, received, jobs_sent, joined, ran, finished>>
    /\ PoolFrame

\* one iteration of the first loop of drop
drop_send_terminate ==
    /\ main_pc = "terminate"
    /\ channel' = Append(channel, Terminate)
    /\ terminates_sent' = terminates_sent + 1
    /\ main_pc' = IF terminates_sent + 1 = size THEN "join" ELSE "terminate"
    /\ UNCHANGED <<size, lock, worker_pc, received, jobs_sent, joined, ran, finished>>
    /\ PoolFrame

\* one iteration of the second loop of drop: thread.join() returns when the
\* worker's thread has ended
drop_join ==
    /\ main_pc = "join"
    /\ worker_pc[joined] = "exited"
    /\ joined' = joined + 1
    /\ main_pc' = IF joined + 1 = size THEN "dropped" ELSE "join"
    /\ UNCHANGED <<size, channel, lock, worker_pc, received, jobs_sent,
                   terminates_sent, ran, finished>>
    /\ PoolFrame

\* receiver.lock().unwrap()
worker_lock(w) ==
    /\ w \in Workers
    /\ worker_pc[w] = "lock"
    /\ lock = Unlocked
    /\ lock' = w
    /\ worker_pc' = [worker_pc EXCEPT ![w] = "recv"]
    /\ UNCHANGED <<size, channel, received, main_pc, jobs_sent, terminates_sent,
                   joined, ran, finished>>
    /\ PoolFrame

\* .recv().unwrap(), which blocks while the channel is empty
worker_recv(w) ==
    /\ w \in Workers
    /\ worker_pc[w] = "recv"
    /\ channel # <<>>
    /\ received' = [received EXCEPT ![w] = Append(@, Head(channel))]
    /\ channel' = Tail(channel)
    /\ worker_pc' = [worker_pc EXCEPT ![w] = "unlock"]
    /\ UNCHANGED <<size, lock, main_pc, jobs_sent, terminates_sent, joined, ran,
                   finished>>
    /\ PoolFrame

\* worker_unlock with the guard bound to a variable that lives on
worker_unlock_late(w) ==
    /\ w \in Workers
    /\ worker_pc[w] = "unlock"
    /\ worker_pc' = [worker_pc EXCEPT ![w] = "match"]
    /\ UNCHANGED <<size, channel, lock, received, main_pc, jobs_sent,
                   terminates_sent, joined, ran, finished>>
    /\ PoolFrame

\* the end of the `let message = ...;` statement drops the MutexGuard
worker_unlock(w) ==
    /\ w \in Workers
    /\ worker_pc[w] = "unlock"
    /\ lock' = Unlocked
    /\ worker_pc' = [worker_pc EXCEPT ![w] = "match"]
    /\ UNCHANGED <<size, channel, received, main_pc, jobs_sent, terminates_sent,
                   joined, ran, finished>>
    /\ PoolFrame

\* the message the worker received last
Message(w) == received[w][Len(received[w])]

\* the arm Message::NewJob(job), up to the call job()
worker_new_job(w) ==
    /\ w \in Workers
    /\ worker_pc[w] = "match"
    /\ Message(w).kind = "NewJob"
    /\ ran' = Append(ran, <<w, Message(w).job>>)
    /\ worker_pc' = [worker_pc EXCEPT ![w] = "job"]
    /\ UNCHANGED <<size, channel, lock, received, main_pc, jobs_sent,
                   terminates_sent, joined, finished>>
    /\ PoolFrame

\* job() returns and the loop starts over
worker_job_returns(w) ==
    /\ w \in Workers
    /\ worker_pc[w] = "job"
    /\ finished' = finished \cup {Message(w).job}
    /\ worker_pc' = [worker_pc EXCEPT ![w] = "lock"]
    /\ UNCHANGED <<size, channel, lock, received, main_pc, jobs_sent,
                   terminates_sent, joined, ran>>
    /\ PoolFrame

\* worker_terminate going on with the loop instead of leaving it
worker_terminate_continue(w) ==
    /\ w \in Workers
    /\ worker_pc[w] = "match"
    /\ Message(w).kind = "Terminate"
    /\ worker_pc' = [worker_pc EXCEPT ![w] = "lock"]
    /\ UNCHANGED <<size, channel, lock, received, main_pc, jobs_sent,
                   terminates_sent, joined, ran, finished>>
    /\ PoolFrame

\* the arm Message::Terminate: break, and the thread ends
worker_terminate(w) ==
    /\ w \in Workers
    /\ worker_pc[w] = "match"
    /\ Message(w).kind = "Terminate"
    /\ worker_pc' = [worker_pc EXCEPT ![w] = "exited"]
    /\ UNCHANGED <<size, channel, lock, received, main_pc, jobs_sent,
                   terminates_sent, joined, ran, finished>>
    /\ PoolFrame

\* a step of the thread of worker w
Worker(w) ==
    \/ worker_lock(w)
    \/ worker_recv(w)
    \/ worker_unlock(w)
    \/ worker_new_job(w)
    \/ worker_job_returns(w)
    \/ worker_terminate(w)

\* a step of Drop::drop
Drop ==
    \/ drop_send_terminate
    \/ drop_join

PoolNext ==
    \/ execute
    \/ drop
    \/ Drop
    \/ \E w \in 0..(MaxWorkers - 1) : Worker(w)

SpecPool == PoolInit /\ [][PoolNext]_vars

\* the scheduler lets every thread that can take a step take one in the end:
\* the workers (jobs return), and the thread inside drop
SpecPoolFair ==
    /\ SpecPool
    /\ WF_vars(Drop)
    /\ \A w \in 0..(MaxWorkers - 1) : WF_vars(Worker(w))

\* the calls job() made for the job
RunsOf(job) == {i \in 1..Len(ran) : ran[i][2] = job}

\* the Terminate messages the worker has received
TerminatesOf(w) == {i \in 1..Len(received[w]) : received[w][i].kind = "Terminate"}

\* C18: every job passed to execute before the pool is dropped is run at
\* most once at any time and, once drop has returned, has been run exactly
\* once (so by one worker) and has finished; no worker has exited while a
\* job is still queued.
TheoremC18 ==
    /\ \A job \in 1..jobs_sent : Cardinality(RunsOf(job)) <= 1
    /\ main_pc = "dropped" =>
          \A job \in 1..jobs_sent :
              Cardinality(RunsOf(job)) = 1 /\ job \in finished
    /\ (\E w \in Workers : worker_pc[w] = "exited") =>
          \A i \in 1..Len(channel) : channel[i].kind # "NewJob"

\* drop has returned after two jobs were run by two different workers
WitnessC18 ==
    /\ main_pc = "dropped"
    /\ size = 2
    /\ jobs_sent = 2
    /\ ran = <<<<0, 1>>, <<1, 2>>>>
    /\ finished = {1, 2}

\* C19: drop sends exactly one Terminate per worker; a worker receives at
\* most one Terminate and, having received it, exits and receives nothing
\* more; once drop has returned every worker has exited, the channel is
\* empty and the Mutex is free; and drop, once entered, returns, whatever
\* the interleaving of the workers.
TheoremC19 ==
    /\ [](/\ terminates_sent <= size
          /\ main_pc \in {"join", "dropped"} => terminates_sent = size
          /\ \A w \in Workers :
                /\ Cardinality(TerminatesOf(w)) <= 1
                /\ TerminatesOf(w) # {} =>
                      /\ TerminatesOf(w) = {Len(received[w])}
                      /\ worker_pc[w] \in {"unlock", "match", "exited"}
                /\ worker_pc[w] = "exited" => TerminatesOf(w) # {}
          /\ main_pc = "dropped" =>
                /\ \A w \in Workers : worker_pc[w] = "exited"
                /\ channel = <<>>
                /\ lock = Unlocked
                /\ joined = size)
    /\ (main_pc = "terminate") ~> (main_pc = "dropped")

\* drop has returned for a pool of two workers of which one ran a job
\* while the other received its Terminate first
WitnessC19 ==
    /\ main_pc = "dropped"
    /\ size = 2
    /\ terminates_sent = 2
    /\ received[0] = <<NewJob(1), Terminate>>
    /\ received[1] = <<Terminate>>
    /\ worker_pc = [w \in Workers |-> "exited"]

\* the workers between lock() and the end of the `let message` statement
InsideRecv == {w \in Workers : worker_pc[w] \in {"recv", "unlock"}}

\* the workers inside job()
RunningJob == {w \in Workers : worker_pc[w] = "job"}

\* C20: a worker holds the Mutex of the receiver exactly from lock() to the
\* end of the `let message` statement, so never while it runs a job; at
\* most one worker is inside recv; and while workers run jobs, a worker
\* that asks for the lock gets it as soon as no worker is inside recv, so
\* that all the workers of the pool can run jobs at the same time.
TheoremC20 ==
    /\ \A w \in Workers : (lock = w) <=> (w \in InsideRecv)
    /\ Cardinality(InsideRecv) <= 1
    /\ \A w \in RunningJob : lock # w
    /\ \A w \in Workers :
          (RunningJob # {} /\ InsideRecv = {} /\ worker_pc[w] = "lock") =>
              ENABLED worker_lock(w)
    /\ Cardinality(RunningJob) <= size

\* both workers of a pool of two are inside job() at the same time
WitnessC20 ==
    /\ size = 2
    /\ RunningJob = {0, 1}
    /\ lock = Unlocked
    /\ finished = {}

=============================================================================
